---- MODULE Spec2Model ----
(***************************************************************************)
(* Identity resolution, usage-quota enforcement and subscription           *)
(* reconciliation of src/app.py (VividMedi Flask backend).                 *)
(*                                                                         *)
(* The state is the SQLite database (tables users and usage), the Stripe   *)
(* account's customers, and one record per request-handling worker: the    *)
(* handler it runs, the handler's local variables and its position.        *)
(* Every SQL statement is one atomic step.  sqlite3 opens a transaction    *)
(* only in front of an INSERT or UPDATE, so a SELECT and the write that    *)
(* follows it in the same handler are two steps that other handlers may    *)
(* interleave with.                                                        *)
(*                                                                         *)
(* The deployment is configured as the header of app.py requires (lines    *)
(* 10-17): every required environment variable is set.                     *)
(***************************************************************************)
EXTENDS Integers, Sequences, FiniteSets, TLC

VARIABLES
    users,      \* table users: id -> [email, name, plan, stripe_customer_id, stripe_subscription_id]
    usage,      \* table usage: <<actor_type, actor_id>> -> used
    customers,  \* the Stripe account: customer id -> metadata user_id
    pc,         \* worker -> position in its handler
    loc,        \* worker -> the handler's local variables and response
    last,       \* history: locals and status of the last sign-in, checkout or webhook answered
    attempts,   \* history: actor -> number of quota attempts issued
    rets,       \* history: actor -> the values usage_incr returned
    nreq,       \* history: number of requests accepted so far
    issued,     \* history: email -> ids that sign-ins returned for it
    calls,      \* history: user -> the checkout calls answered, in order
    overlap,    \* history: user -> two checkout calls of the user ran at once
    lastDone,   \* history: the checkout-completed event applied by the last write to users
    now,        \* the server's clock, in seconds
    tokens,     \* the bearer tokens signed by sign_token, and forged ones
    verified    \* the token verify_token was last called with, when, and what came of it

vars == <<users, usage, customers, pc, loc, last, attempts, rets, nreq,
          issued, calls, overlap, lastDone, now, tokens, verified>>

tokenVars == <<now, tokens, verified>>

billingHist == <<issued, calls, overlap, lastDone, last>>

(***************************************************************************)
(* Bounds of the model.                                                    *)
(***************************************************************************)
NumWorkers == 2
MaxQuotaRequests == 3
MaxSeqRequests == 15

Workers == 1..NumWorkers

(***************************************************************************)
(* Values.                                                                 *)
(***************************************************************************)
None == "none"                      \* Python None, SQL NULL
UserIds == {"usr_1", "usr_2"}       \* "usr_" + uuid4().hex
GuestIds == {"g1"}                  \* values of the vivid_guest cookie
Cookies == GuestIds \cup {""}       \* "" : the request carries no cookie
Credentials == UserIds \cup {None}  \* what verify_token / session yields

ActorKeys ==
    {<<"guest", g>> : g \in Cookies} \cup {<<"user", u>> : u \in UserIds}

NoUsageRow == -1

Emails == {"a@x", "b@x"}            \* normalised e-mail addresses

GUEST_LIMIT == 10
FREE_LIMIT == 11
PRO_LIMIT == 1000000

(***************************************************************************)
(* A worker's locals.  One record shape serves every handler.              *)
(***************************************************************************)
Fresh ==
    [ op |-> "none",
      actor_type |-> "", actor_id |-> "", limit |-> 0, logged_in |-> FALSE,
      row |-> NoUsageRow, used_after |-> 0, k |-> 0,
      blocked |-> FALSE, payload_used |-> 0, plan |-> "", remaining |-> 0,
      uid |-> None, email |-> "", name |-> "", row_name |-> "",
      customer_id |-> None, created |-> FALSE,
      sig |-> "", etype |-> "", subscription_id |-> None, sub_status |-> None,
      replay |-> FALSE,
      status |-> 0 ]

(***************************************************************************)
(* get_user_from_bearer, get_authed_user: the bearer credential first,     *)
(* then the session; each resolves through SELECT * FROM users WHERE id=?. *)
(***************************************************************************)
GetUserById(uid) ==
    IF uid # None /\ uid \in DOMAIN users THEN uid ELSE None

GetAuthedUser(bearer, session) ==
    IF GetUserById(bearer) # None THEN GetUserById(bearer)
    ELSE GetUserById(session)

(***************************************************************************)
(* actor_and_limit.                                                        *)
(***************************************************************************)
LimitForPlanAlwaysFree(plan) == FREE_LIMIT

LimitForPlan(plan) ==
    IF plan = "pro" THEN PRO_LIMIT ELSE FREE_LIMIT

GetGuestId(cookie) == cookie

ActorAndLimit(u, cookie) ==
    IF u # None
    THEN [actor_type |-> "user", actor_id |-> u,
          limit |-> LimitForPlan(users[u].plan), logged_in |-> TRUE]
    ELSE [actor_type |-> "guest", actor_id |-> GetGuestId(cookie),
          limit |-> GUEST_LIMIT, logged_in |-> FALSE]

(***************************************************************************)
(* enforce_quota_or_402, the part after usage_incr returned.               *)
(***************************************************************************)
QuotaExceededOffByOne(used_after, limit) == used_after >= limit

QuotaExceeded(used_after, limit) == used_after > limit

MinIsFirst(a, b) == a

Min(a, b) == IF a < b THEN a ELSE b

AfterIncr(l, used) ==
    IF QuotaExceeded(used, l.limit)
    THEN [l EXCEPT !.used_after = used, !.blocked = TRUE,
                   !.payload_used = Min(used, l.limit), !.status = 402]
    ELSE [l EXCEPT !.used_after = used]

PcAfterIncrAlwaysCall(l, used) == "call"

PcAfterIncr(l, used) ==
    IF QuotaExceeded(used, l.limit) THEN "done" ELSE "call"

(***************************************************************************)
(* The server hands a request to a worker that is free.  Which of the free *)
(* workers takes it makes no difference to the handler: the first does.    *)
(***************************************************************************)
Dispatch(p) ==
    /\ pc[p] = "idle"
    /\ \A q \in Workers : q < p => pc[q] # "idle"

(***************************************************************************)
(* generate / consult up to actor_and_limit: the request is accepted and   *)
(* its actor resolved.                                                     *)
(***************************************************************************)
EnforceStart(p, bearer, session, cookie) ==
    /\ Dispatch(p)
    /\ LET al == ActorAndLimit(GetAuthedUser(bearer, session), cookie)
           a == <<al.actor_type, al.actor_id>>
       IN /\ loc' = [loc EXCEPT ![p] =
                        [Fresh EXCEPT !.op = "generate",
                                      !.actor_type = al.actor_type,
                                      !.actor_id = al.actor_id,
                                      !.limit = al.limit,
                                      !.logged_in = al.logged_in,
                                      !.k = attempts[a] + 1]]
          /\ attempts' = [attempts EXCEPT ![a] = @ + 1]
    /\ pc' = [pc EXCEPT ![p] = "incr_select"]
    /\ nreq' = nreq + 1
    /\ UNCHANGED <<users, usage, customers, rets, billingHist>>
    /\ UNCHANGED tokenVars

(***************************************************************************)
(* usage_incr, lines 320-326: the early return for an empty actor id, and  *)
(* the SELECT.                                                             *)
(***************************************************************************)
UsageIncrSelect(p) ==
    /\ pc[p] = "incr_select"
    /\ LET l == loc[p]
           a == <<l.actor_type, l.actor_id>>
       IN IF l.actor_id = ""
          THEN /\ loc' = [loc EXCEPT ![p] = AfterIncr(l, 0)]
               /\ pc' = [pc EXCEPT ![p] = PcAfterIncr(l, 0)]
               /\ rets' = [rets EXCEPT ![a] = @ \cup {0}]
          ELSE /\ loc' = [loc EXCEPT ![p].row =
                            IF a \in DOMAIN usage THEN usage[a] ELSE NoUsageRow]
               /\ pc' = [pc EXCEPT ![p] = "incr_write"]
               /\ UNCHANGED rets
    /\ UNCHANGED <<users, usage, customers, attempts, nreq, billingHist>>
    /\ UNCHANGED tokenVars

(***************************************************************************)
(* usage_incr, lines 327-340: UPDATE with the value computed from the row  *)
(* read, or INSERT when no row was read; commit; return.  The INSERT       *)
(* raises IntegrityError when the primary key exists by now, and the       *)
(* handler answers 500.                                                    *)
(***************************************************************************)
UsageIncrWrite(p) ==
    /\ pc[p] = "incr_write"
    /\ LET l == loc[p]
           a == <<l.actor_type, l.actor_id>>
       IN IF l.row # NoUsageRow
          THEN /\ usage' = [usage EXCEPT ![a] = l.row + 1]
               /\ loc' = [loc EXCEPT ![p] = AfterIncr(l, l.row + 1)]
               /\ pc' = [pc EXCEPT ![p] = PcAfterIncr(l, l.row + 1)]
               /\ rets' = [rets EXCEPT ![a] = @ \cup {l.row + 1}]
          ELSE IF a \in DOMAIN usage
          THEN /\ loc' = [loc EXCEPT ![p].status = 500]
               /\ pc' = [pc EXCEPT ![p] = "done"]
               /\ UNCHANGED <<usage, rets>>
          ELSE /\ usage' = usage @@ (a :> 1)
               /\ loc' = [loc EXCEPT ![p] = AfterIncr(l, 1)]
               /\ pc' = [pc EXCEPT ![p] = PcAfterIncr(l, 1)]
               /\ rets' = [rets EXCEPT ![a] = @ \cup {1}]
    /\ UNCHANGED <<users, customers, attempts, nreq, billingHist>>
    /\ UNCHANGED tokenVars

(***************************************************************************)
(* call_deepseek and the handler's answer: 200, or 502 when the call       *)
(* raises.                                                                 *)
(***************************************************************************)
CallDeepseek(p) ==
    /\ pc[p] = "call"
    /\ \E ok \in BOOLEAN :
          loc' = [loc EXCEPT ![p].status = IF ok THEN 200 ELSE 502]
    /\ pc' = [pc EXCEPT ![p] = "done"]
    /\ UNCHANGED <<users, usage, customers, attempts, rets, nreq, billingHist>>
    /\ UNCHANGED tokenVars

(***************************************************************************)
(* The response is sent; the worker takes the next request.                *)
(***************************************************************************)
Finish(p) ==
    /\ pc[p] = "done"
    /\ pc' = [pc EXCEPT ![p] = "idle"]
    /\ loc' = [loc EXCEPT ![p] = Fresh]
    /\ UNCHANGED <<users, usage, customers, attempts, rets, nreq, billingHist>>
    /\ UNCHANGED tokenVars

(***************************************************************************)
(* Rows of the users table.                                                *)
(***************************************************************************)
UserRow(email, name, plan, cust, sub) ==
    [email |-> email, name |-> name, plan |-> plan,
     stripe_customer_id |-> cust, stripe_subscription_id |-> sub]

(***************************************************************************)
(* The histories of sign-ins, checkouts and webhooks before any ran.       *)
(***************************************************************************)
NoEvent == [customer |-> None, subscription |-> None]

NotVerified ==
    [called |-> FALSE, token |-> [uid |-> None, ts |-> 0, sig |-> ""],
     at |-> 0, raised |-> FALSE, value |-> None]

NoTokens ==
    /\ now = 0
    /\ tokens = {}
    /\ verified = NotVerified

InitHist ==
    /\ NoTokens
    /\ last = Fresh
    /\ issued = [e \in Emails |-> {}]
    /\ calls = [u \in UserIds |-> <<>>]
    /\ overlap = [u \in UserIds |-> FALSE]
    /\ lastDone = NoEvent

(***************************************************************************)
(* Concurrent quota attempts.  The database holds one signed-in free user. *)
(***************************************************************************)
InitQuota ==
    /\ users = ("usr_1" :> UserRow("a@x", "n", "free", None, None))
    /\ usage = <<>>
    /\ customers = <<>>
    /\ pc = [p \in Workers |-> "idle"]
    /\ loc = [p \in Workers |-> Fresh]
    /\ attempts = [a \in ActorKeys |-> 0]
    /\ rets = [a \in ActorKeys |-> {}]
    /\ nreq = 0
    /\ InitHist

QuotaStep(p) ==
    \/ /\ nreq < MaxQuotaRequests
       /\ \E b \in Credentials, s \in Credentials, c \in Cookies :
             EnforceStart(p, b, s, c)
    \/ UsageIncrSelect(p)
    \/ UsageIncrWrite(p)
    \/ CallDeepseek(p)
    \/ Finish(p)

NextQuota == \E p \in Workers : QuotaStep(p)

SpecQuota == InitQuota /\ [][NextQuota]_vars

(***************************************************************************)
(* usage_get.                                                              *)
(***************************************************************************)
UsageGet(a) ==
    IF a[2] = "" THEN 0
    ELSE IF a \in DOMAIN usage THEN usage[a] ELSE 0

(***************************************************************************)
(* Sequential quota attempts: one worker, so every request ends before the *)
(* next begins.  The database holds a free user and a pro user (signed in, *)
(* checked out and upgraded by the webhook); nothing changes a plan.  The  *)
(* pro user has made ProStartUsed attempts before, one after the other.    *)
(***************************************************************************)
ProStartUsed == {0, 9998, 999998}

InitSeq ==
    /\ users = ("usr_1" :> UserRow("a@x", "n", "free", None, None))
            @@ ("usr_2" :> UserRow("b@x", "n", "pro", "cus_1", "sub_1"))
    /\ customers = ("cus_1" :> "usr_2")
    /\ \E n \in ProStartUsed :
          /\ usage = IF n = 0 THEN <<>> ELSE (<<"user", "usr_2">> :> n)
          /\ attempts = [a \in ActorKeys |->
                            IF a = <<"user", "usr_2">> THEN n ELSE 0]
    /\ pc = [p \in Workers |-> "idle"]
    /\ loc = [p \in Workers |-> Fresh]
    /\ rets = [a \in ActorKeys |-> {}]
    /\ nreq = 0
    /\ InitHist

SeqStep(p) ==
    \/ /\ nreq < MaxSeqRequests
       /\ \E b \in Credentials, s \in Credentials, c \in Cookies :
             EnforceStart(p, b, s, c)
    \/ UsageIncrSelect(p)
    \/ UsageIncrWrite(p)
    \/ CallDeepseek(p)
    \/ Finish(p)

NextSeq == SeqStep(1)

SpecSeq == InitSeq /\ [][NextSeq]_vars

(***************************************************************************)
(* What a state shows of a quota attempt.                                  *)
(***************************************************************************)
InUsageIncr(p) == pc[p] \in {"incr_select", "incr_write"}

Decided(p) == loc[p].op = "generate" /\ pc[p] \in {"call", "done"}

Allowed(p) == Decided(p) /\ ~loc[p].blocked /\ loc[p].status # 500

Denied(p) == Decided(p) /\ loc[p].blocked

Raised(p) == Decided(p) /\ loc[p].status = 500

Keyed == {a \in ActorKeys : a[2] # ""}

(***************************************************************************)
(* C1.  N concurrent quota attempts of one actor: once all of them have    *)
(* left usage_incr, none has raised, the values returned are exactly 1..N  *)
(* and the stored used is N.  Stated for the actors that have an           *)
(* identifier; violated by two attempts that both read before either       *)
(* writes.                                                                 *)
(***************************************************************************)
C1_NoLostUpdate ==
    (\A p \in Workers : ~InUsageIncr(p)) =>
        \A a \in Keyed :
            /\ rets[a] = 1..attempts[a]
            /\ UsageGet(a) = attempts[a]
            /\ \A p \in Workers :
                  <<loc[p].actor_type, loc[p].actor_id>> = a => ~Raised(p)

(***************************************************************************)
(* C2.  Sequential attempts of a guest: attempt k is allowed iff k <= 10,  *)
(* and a denial reports limit 10.  Violated by the guest whose request     *)
(* carries no cookie: its 11th attempt is allowed.                         *)
(***************************************************************************)
C2_GuestDeniedFrom11th ==
    \A p \in Workers :
        (Decided(p) /\ loc[p].actor_type = "guest") =>
            /\ Allowed(p) <=> loc[p].k <= 10
            /\ Denied(p) <=> loc[p].k > 10
            /\ loc[p].limit = 10

(***************************************************************************)
(* C3.  Sequential attempts of an authenticated user whose plan does not   *)
(* change: attempt k is allowed iff k <= 11 on the free plan and iff       *)
(* k <= 1,000,000 on the pro plan; no attempt raises.                      *)
(***************************************************************************)
C3_UserAllowedIffWithinPlanLimit ==
    \A p \in Workers :
        (Decided(p) /\ loc[p].actor_type = "user") =>
            LET plan == users[loc[p].actor_id].plan
                lim == IF plan = "pro" THEN 1000000 ELSE 11
            IN /\ plan \in {"free", "pro"}
               /\ Allowed(p) <=> loc[p].k <= lim
               /\ Denied(p) <=> loc[p].k > lim
               /\ loc[p].limit = lim

\* The free user's 12th attempt is the first denied, after the pro user's
\* 10,000th and 1,000,000th attempts were made.
C3_Witness ==
    /\ pc[1] = "done" /\ Denied(1)
    /\ loc[1].actor_type = "user" /\ users[loc[1].actor_id].plan = "free"
    /\ loc[1].k = 12 /\ loc[1].status = 402
    /\ attempts[<<"user", "usr_2">>] \in {10000, 1000000}

(***************************************************************************)
(* C4.  After k sequential attempts of an actor, allowed or denied, the    *)
(* stored used of that actor is k.  Violated by the guest without a        *)
(* cookie, whose attempts are never stored.                                *)
(***************************************************************************)
C4_UsedCountsEveryAttempt ==
    (\A p \in Workers : pc[p] \in {"idle", "call", "done"}) =>
        \A a \in ActorKeys : UsageGet(a) = attempts[a]

(***************************************************************************)
(* C10.  A quota-checked request always resolves to a non-empty actor      *)
(* identifier, and none passes the quota gate without a usage counter      *)
(* having been incremented for it.  Violated by a request that carries no  *)
(* valid credential and no cookie.                                         *)
(***************************************************************************)
C10_ActorIdentifiedAndCounted ==
    \A p \in Workers :
        Allowed(p) =>
            /\ loc[p].actor_id # ""
            /\ loc[p].used_after >= 1
            /\ UsageGet(<<loc[p].actor_type, loc[p].actor_id>>) >= 1

(***************************************************************************)
(* A handler answers: the status goes out with what the handler held, and  *)
(* the worker is free again.                                               *)
(***************************************************************************)
Answer(p, l, code) ==
    /\ last' = [l EXCEPT !.status = code]
    /\ pc' = [pc EXCEPT ![p] = "idle"]
    /\ loc' = [loc EXCEPT ![p] = Fresh]

(***************************************************************************)
(* auth_google and create_or_get_user_by_email.                            *)
(*                                                                         *)
(* (email or "").strip().lower(), on the addresses Google may report.      *)
(***************************************************************************)
RawEmails == {"A@x ", "a@x", "b@x", ""}

NormaliseEmail(raw) ==
    CASE raw = "A@x " -> "a@x"
      [] raw = "a@x" -> "a@x"
      [] raw = "b@x" -> "b@x"
      [] OTHER -> ""

Names == {"", "n1"}                 \* name and picture of the Google profile

Or(a, b) == IF a # "" THEN a ELSE b

RowsByEmail(email) == {u \in DOMAIN users : users[u].email = email}

\* email TEXT UNIQUE NOT NULL: an INSERT of an address the table holds raises.
EmailTakenNever(email) == FALSE

EmailTaken(email) == RowsByEmail(email) # {}

\* "usr_" + uuid4().hex: an id no row has.
NewUserId == "usr_" \o ToString(Cardinality(DOMAIN users) + 1)

(***************************************************************************)
(* auth_google up to the SELECT of create_or_get_user_by_email (lines      *)
(* 651-669, 264-269).  A missing credential answers 400; a credential      *)
(* Google rejects, or one without an e-mail address, answers 401.          *)
(***************************************************************************)
SignInStart(p, credential, raw, name) ==
    /\ Dispatch(p)
    /\ nreq' = nreq + 1
    /\ LET email == NormaliseEmail(NormaliseEmail(raw))
           l == [Fresh EXCEPT !.op = "signin", !.email = email, !.name = name]
       IN IF credential = "missing" THEN Answer(p, l, 400)
          ELSE IF credential = "invalid" \/ email = "" THEN Answer(p, l, 401)
          ELSE /\ UNCHANGED last
               /\ IF RowsByEmail(email) # {}
                  THEN \E u \in RowsByEmail(email) :
                          /\ loc' = [loc EXCEPT ![p] =
                                       [l EXCEPT !.uid = u,
                                                 !.row_name = users[u].name]]
                          /\ pc' = [pc EXCEPT ![p] = "upsert_update"]
                  ELSE /\ loc' = [loc EXCEPT ![p] = l]
                       /\ pc' = [pc EXCEPT ![p] = "upsert_insert"]
    /\ UNCHANGED <<users, usage, customers, attempts, rets,
                   issued, calls, overlap, lastDone>>
    /\ UNCHANGED tokenVars

(***************************************************************************)
(* create_or_get_user_by_email, lines 270-277: the row was found.  UPDATE  *)
(* name and picture, commit, SELECT the row again and return it; the       *)
(* session and the bearer token carry its id (lines 678-685).              *)
(***************************************************************************)
UpsertUpdate(p) ==
    /\ pc[p] = "upsert_update"
    /\ LET l == loc[p]
       IN /\ users' = [u \in DOMAIN users |->
                          IF users[u].email = l.email
                          THEN [users[u] EXCEPT !.name = Or(l.name, l.row_name)]
                          ELSE users[u]]
          /\ \E u \in RowsByEmail(l.email) :
                /\ issued' = [issued EXCEPT ![l.email] = @ \cup {u}]
                /\ Answer(p, [l EXCEPT !.uid = u], 200)
    /\ lastDone' = NoEvent
    /\ UNCHANGED <<usage, customers, attempts, rets, nreq, calls, overlap>>
    /\ UNCHANGED tokenVars

(***************************************************************************)
(* create_or_get_user_by_email, lines 279-289: no row was found.  INSERT   *)
(* a free user under a new id; the INSERT raises when the address is in    *)
(* the table by now, and auth_google answers 401 (lines 687-689).          *)
(***************************************************************************)
UpsertInsert(p) ==
    /\ pc[p] = "upsert_insert"
    /\ LET l == loc[p]
           uid == NewUserId
       IN IF EmailTaken(l.email)
          THEN /\ Answer(p, l, 401)
               /\ UNCHANGED <<users, issued, lastDone>>
          ELSE /\ users' = users @@
                     (uid :> UserRow(l.email, l.name, "free", None, None))
               /\ issued' = [issued EXCEPT ![l.email] = @ \cup {uid}]
               /\ Answer(p, [l EXCEPT !.uid = uid], 200)
               /\ lastDone' = NoEvent
    /\ UNCHANGED <<usage, customers, attempts, rets, nreq, calls, overlap>>
    /\ UNCHANGED tokenVars

(***************************************************************************)
(* Concurrent sign-ins.  The database is empty, or holds one user who      *)
(* signed in, checked out and was upgraded by the webhook.                 *)
(***************************************************************************)
MaxSignIns == 3

InitUsers ==
    /\ \/ /\ users = <<>>
          /\ customers = <<>>
          /\ issued = [e \in Emails |-> {}]
       \/ /\ users = ("usr_1" :> UserRow("a@x", "n0", "pro", "cus_1", "sub_1"))
          /\ customers = ("cus_1" :> "usr_1")
          /\ issued = [e \in Emails |-> IF e = "a@x" THEN {"usr_1"} ELSE {}]
    /\ usage = <<>>
    /\ pc = [p \in Workers |-> "idle"]
    /\ loc = [p \in Workers |-> Fresh]
    /\ attempts = [a \in ActorKeys |-> 0]
    /\ rets = [a \in ActorKeys |-> {}]
    /\ nreq = 0
    /\ last = Fresh
    /\ calls = [u \in UserIds |-> <<>>]
    /\ overlap = [u \in UserIds |-> FALSE]
    /\ lastDone = NoEvent
    /\ NoTokens

UsersStep(p) ==
    \/ /\ nreq < MaxSignIns
       /\ \E credential \in {"valid", "invalid", "missing"},
             raw \in RawEmails, name \in Names :
             SignInStart(p, credential, raw, name)
    \/ UpsertUpdate(p)
    \/ UpsertInsert(p)

NextUsers == \E p \in Workers : UsersStep(p)

SpecUsers == InitUsers /\ [][NextUsers]_vars

(***************************************************************************)
(* C8.  Under any interleaving of sign-ins the users table never holds two *)
(* rows with one lower-cased e-mail address; every sign-in answered for an *)
(* address returns the id of the row of that address, the same id as every *)
(* sign-in before it; a sign-in that found the row of its address is      *)
(* answered 200 with that row's id; and no step of a sign-in changes the   *)
(* e-mail, plan, customer reference or subscription reference of a row     *)
(* that exists.                                                            *)
(***************************************************************************)
C8_State ==
    /\ \A u \in DOMAIN users : \A v \in DOMAIN users :
          users[u].email = users[v].email => u = v
    /\ \A u \in DOMAIN users : users[u].email \in {"a@x", "b@x"}
    /\ \A e \in Emails : Cardinality(issued[e]) <= 1
    /\ (last.op = "signin" /\ last.status = 200) =>
          /\ last.uid \in DOMAIN users
          /\ users[last.uid].email = last.email
          /\ issued[last.email] = {last.uid}

C8_Step ==
    /\ \A u \in DOMAIN users :
          /\ u \in DOMAIN users'
          /\ users'[u].email = users[u].email
          /\ users'[u].plan = users[u].plan
          /\ users'[u].stripe_customer_id = users[u].stripe_customer_id
          /\ users'[u].stripe_subscription_id = users[u].stripe_subscription_id
    /\ \A p \in Workers :
          (pc[p] = "upsert_update" /\ pc'[p] # "upsert_update") =>
             /\ last'.status = 200
             /\ last'.uid = loc[p].uid
             /\ last'.email = loc[p].email

C8_OneRowPerEmail == [][C8_State' /\ C8_Step]_vars

\* A second sign-in of the upgraded user, spelt in capitals, is answered with
\* the id of the first while another address has got a row of its own.
C8_Witness ==
    /\ last.op = "signin" /\ last.status = 200
    /\ last.uid = "usr_1" /\ issued["a@x"] = {"usr_1"}
    /\ users["usr_1"].name = "n1"
    /\ users["usr_1"].plan = "pro"
    /\ users["usr_1"].stripe_customer_id = "cus_1"
    /\ users["usr_1"].stripe_subscription_id = "sub_1"
    /\ Cardinality(DOMAIN users) = 2

(***************************************************************************)
(* Stripe checkout and webhook.                                            *)
(***************************************************************************)
MaxBillingRequests == 2

\* customer.id of the n-th customer the Stripe account creates
CustomerId(n) == "cus_" \o ToString(n)

\* customers an event may name: those of the Stripe account, which are the
\* ones created here and one created out of band
EventCustomers == {None, "cus_ext"} \cup DOMAIN customers

EventSubscriptions == {None, "sub_1"}

\* Stripe's subscription statuses, and an event without one
EventStatuses ==
    {None, "active", "past_due", "canceled", "unpaid", "incomplete_expired"}

\* The payloads: a checkout session carries customer and subscription, a
\* subscription carries customer and status.
Events ==
    {[type |-> "checkout.session.completed", customer |-> c,
      subscription |-> s, status |-> None] :
        c \in EventCustomers, s \in EventSubscriptions}
    \cup
    {[type |-> t, customer |-> c, subscription |-> None, status |-> st] :
        t \in {"customer.subscription.deleted", "customer.subscription.updated"},
        c \in EventCustomers, st \in EventStatuses}
    \cup
    {[type |-> "invoice.paid", customer |-> "cus_ext",
      subscription |-> None, status |-> None]}

\* STRIPE_SECRET_KEY, STRIPE_PRICE_ID_PRO and STRIPE_WEBHOOK_SECRET are set.
StripeConfigured == TRUE
WebhookSecretConfigured == TRUE

\* stripe.Webhook.construct_event returns the event or raises
SignatureValidAlways(sig) == TRUE

SignatureValid(sig) == sig = "good"

\* (sub.get("status") or "").lower()
StatusLower(status) == IF status = None THEN "" ELSE status

TerminalStatusWithPastDue(status) ==
    status \in {"canceled", "unpaid", "incomplete_expired", "past_due"}

TerminalStatus(status) ==
    status \in {"canceled", "unpaid", "incomplete_expired"}

\* SELECT id FROM users WHERE stripe_customer_id=?
RowsByCustomer(c) ==
    {u \in DOMAIN users : users[u].stripe_customer_id = c}

\* COALESCE(?, column)
Coalesce(a, b) == IF a # None THEN a ELSE b

\* upgrade_user_to_pro: the table after the UPDATE
UpgradeUserToProNoCoalesce(user_id, stripe_customer_id, stripe_subscription_id) ==
    [users EXCEPT ![user_id] =
        [@ EXCEPT !.plan = "pro",
                  !.stripe_customer_id = stripe_customer_id,
                  !.stripe_subscription_id = stripe_subscription_id]]

UpgradeUserToPro(user_id, stripe_customer_id, stripe_subscription_id) ==
    [users EXCEPT ![user_id] =
        [@ EXCEPT !.plan = "pro",
                  !.stripe_customer_id = Coalesce(stripe_customer_id, @),
                  !.stripe_subscription_id = Coalesce(stripe_subscription_id, @)]]

\* UPDATE users SET stripe_customer_id=? WHERE id=?: the table after it
SetCustomerIdNot(user_id, customer_id) == users

SetCustomerId(user_id, customer_id) ==
    [users EXCEPT ![user_id].stripe_customer_id = customer_id]

InCheckout(q, u) == loc[q].op = "checkout" /\ loc[q].uid = u

CallRecord(l, code) ==
    [created |-> l.created, customer |-> l.customer_id, status |-> code]

(***************************************************************************)
(* stripe_create_checkout_session, lines 703-716: configuration, the       *)
(* caller's user row, and the customer reference it holds.                 *)
(***************************************************************************)
CheckoutStart(p, bearer, session) ==
    /\ Dispatch(p)
    /\ nreq' = nreq + 1
    /\ LET u == GetAuthedUser(bearer, session)
           l == [Fresh EXCEPT !.op = "checkout"]
       IN IF ~StripeConfigured
          THEN Answer(p, l, 500) /\ UNCHANGED overlap
          ELSE IF u = None
          THEN Answer(p, l, 401) /\ UNCHANGED overlap
          ELSE /\ loc' = [loc EXCEPT ![p] =
                            [l EXCEPT !.uid = u, !.email = users[u].email,
                                      !.customer_id = users[u].stripe_customer_id]]
               /\ pc' = [pc EXCEPT ![p] =
                            IF users[u].stripe_customer_id \in {None, ""}
                            THEN "co_customer" ELSE "co_session"]
               /\ overlap' = [overlap EXCEPT ![u] =
                                 @ \/ \E q \in Workers \ {p} : InCheckout(q, u)]
               /\ UNCHANGED last
    /\ UNCHANGED <<users, usage, customers, attempts, rets,
                   issued, calls, lastDone>>
    /\ UNCHANGED tokenVars

(***************************************************************************)
(* lines 717-721: stripe.Customer.create.  It returns a new customer       *)
(* tagged with the user's id, or raises and the handler answers 500.       *)
(***************************************************************************)
CheckoutCreateCustomer(p) ==
    /\ pc[p] = "co_customer"
    /\ LET l == loc[p]
           c == CustomerId(Cardinality(DOMAIN customers) + 1)
       IN \/ /\ customers' = customers @@ (c :> l.uid)
             /\ loc' = [loc EXCEPT ![p] =
                          [l EXCEPT !.customer_id = c, !.created = TRUE]]
             /\ pc' = [pc EXCEPT ![p] = "co_store"]
             /\ UNCHANGED <<last, calls>>
          \/ /\ Answer(p, l, 500)
             /\ calls' = [calls EXCEPT ![l.uid] = Append(@, CallRecord(l, 500))]
             /\ UNCHANGED customers
    /\ UNCHANGED <<users, usage, attempts, rets, nreq, issued, overlap, lastDone>>
    /\ UNCHANGED tokenVars

(***************************************************************************)
(* lines 722-724: the customer reference is stored on the user.            *)
(***************************************************************************)
CheckoutStoreCustomer(p) ==
    /\ pc[p] = "co_store"
    /\ users' = SetCustomerId(loc[p].uid, loc[p].customer_id)
    /\ pc' = [pc EXCEPT ![p] = "co_session"]
    /\ lastDone' = NoEvent
    /\ UNCHANGED <<usage, customers, loc, last, attempts, rets, nreq,
                   issued, calls, overlap>>
    /\ UNCHANGED tokenVars

(***************************************************************************)
(* lines 727-740: stripe.checkout.Session.create for customer_id.  It      *)
(* returns the session and the handler answers 200 with its url, or raises *)
(* and the handler answers 500.                                            *)
(***************************************************************************)
CheckoutCreateSession(p) ==
    /\ pc[p] = "co_session"
    /\ \E code \in {200, 500} :
          /\ Answer(p, loc[p], code)
          /\ calls' = [calls EXCEPT ![loc[p].uid] =
                          Append(@, CallRecord(loc[p], code))]
    /\ UNCHANGED <<users, usage, customers, attempts, rets, nreq,
                   issued, overlap, lastDone>>
    /\ UNCHANGED tokenVars

(***************************************************************************)
(* stripe_webhook, lines 748-790 up to the handler's SELECT: the signature *)
(* check, the event's type and object, and the lookup of the user by       *)
(* customer reference.                                                     *)
(***************************************************************************)
WebhookStart(p, sig, event) ==
    /\ Dispatch(p)
    /\ nreq' = nreq + 1
    /\ LET l == [Fresh EXCEPT !.op = "webhook", !.sig = sig,
                              !.etype = event.type,
                              !.customer_id = event.customer,
                              !.subscription_id = event.subscription,
                              !.sub_status = event.status,
                              !.replay =
                                  /\ event.type = "checkout.session.completed"
                                  /\ lastDone = [customer |-> event.customer,
                                                 subscription |-> event.subscription]]
           found == RowsByCustomer(event.customer)
           goes ==
               /\ SignatureValid(sig)
               /\ event.customer \notin {None, ""}
               /\ found # {}
               /\ \/ event.type = "checkout.session.completed"
                  \/ /\ event.type \in {"customer.subscription.deleted",
                                        "customer.subscription.updated"}
                     /\ TerminalStatus(StatusLower(event.status))
       IN IF ~WebhookSecretConfigured THEN Answer(p, l, 500)
          ELSE IF ~SignatureValid(sig) THEN Answer(p, l, 400)
          ELSE IF ~goes THEN Answer(p, l, 200)
          ELSE /\ \E u \in found :
                     loc' = [loc EXCEPT ![p] = [l EXCEPT !.uid = u]]
               /\ pc' = [pc EXCEPT ![p] =
                            IF event.type = "checkout.session.completed"
                            THEN "wh_upgrade" ELSE "wh_downgrade"]
               /\ UNCHANGED last
    /\ UNCHANGED <<users, usage, customers, attempts, rets,
                   issued, calls, overlap, lastDone>>
    /\ UNCHANGED tokenVars

(***************************************************************************)
(* lines 772-776 and 790: upgrade_user_to_pro for the row found.           *)
(***************************************************************************)
WebhookUpgrade(p) ==
    /\ pc[p] = "wh_upgrade"
    /\ users' = UpgradeUserToPro(loc[p].uid, loc[p].customer_id,
                                 loc[p].subscription_id)
    /\ lastDone' = [customer |-> loc[p].customer_id,
                    subscription |-> loc[p].subscription_id]
    /\ Answer(p, loc[p], 200)
    /\ UNCHANGED <<usage, customers, attempts, rets, nreq, issued, calls, overlap>>
    /\ UNCHANGED tokenVars

(***************************************************************************)
(* lines 786-790: UPDATE users SET plan='free' for the row found.          *)
(***************************************************************************)
WebhookDowngrade(p) ==
    /\ pc[p] = "wh_downgrade"
    /\ users' = [users EXCEPT ![loc[p].uid].plan = "free"]
    /\ lastDone' = NoEvent
    /\ Answer(p, loc[p], 200)
    /\ UNCHANGED <<usage, customers, attempts, rets, nreq, issued, calls, overlap>>
    /\ UNCHANGED tokenVars

(***************************************************************************)
(* Concurrent checkouts and webhook deliveries.  Two users have signed in; *)
(* neither has called checkout yet, or the first has called it once: the   *)
(* call created customer cus_1, stored it and got its session.             *)
(***************************************************************************)
InitBilling ==
    /\ \/ /\ users = ("usr_1" :> UserRow("a@x", "n1", "free", None, None))
                  @@ ("usr_2" :> UserRow("b@x", "n1", "free", None, None))
          /\ customers = <<>>
          /\ calls = [u \in UserIds |-> <<>>]
          /\ last = Fresh
       \/ /\ users = ("usr_1" :> UserRow("a@x", "n1", "free", "cus_1", None))
                  @@ ("usr_2" :> UserRow("b@x", "n1", "free", None, None))
          /\ customers = ("cus_1" :> "usr_1")
          /\ LET l == [Fresh EXCEPT !.op = "checkout", !.uid = "usr_1",
                                    !.email = "a@x", !.customer_id = "cus_1",
                                    !.created = TRUE, !.status = 200]
             IN /\ calls = [u \in UserIds |->
                              IF u = "usr_1" THEN <<CallRecord(l, 200)>>
                              ELSE <<>>]
                /\ last = l
    /\ usage = <<>>
    /\ pc = [p \in Workers |-> "idle"]
    /\ loc = [p \in Workers |-> Fresh]
    /\ attempts = [a \in ActorKeys |-> 0]
    /\ rets = [a \in ActorKeys |-> {}]
    /\ nreq = 0
    /\ issued = [e \in Emails |-> {}]
    /\ overlap = [u \in UserIds |-> FALSE]
    /\ lastDone = NoEvent
    /\ NoTokens

BillingStep(p) ==
    \/ /\ nreq < MaxBillingRequests
       /\ \E b \in Credentials, s \in Credentials : CheckoutStart(p, b, s)
    \/ CheckoutCreateCustomer(p)
    \/ CheckoutStoreCustomer(p)
    \/ CheckoutCreateSession(p)
    \/ /\ nreq < MaxBillingRequests
       /\ \E sig \in {"good", "bad"}, event \in Events : WebhookStart(p, sig, event)
    \/ WebhookUpgrade(p)
    \/ WebhookDowngrade(p)

NextBilling == \E p \in Workers : BillingStep(p)

SpecBilling == InitBilling /\ [][NextBilling]_vars

(***************************************************************************)
(* What a step shows of a checkout or webhook request.  A step that        *)
(* accepts a request either answers it at once (no worker moves, and last  *)
(* holds the answer) or leaves its worker inside the handler.              *)
(***************************************************************************)
Accepts == nreq' = nreq + 1

AnsweredAtOnce == Accepts /\ pc' = pc

Accepted ==
    IF pc' = pc THEN last'
    ELSE loc'[CHOOSE p \in Workers : pc'[p] # pc[p]]

Moves(p, at) == pc[p] = at /\ pc'[p] # at

SubscriptionEvent(r) ==
    /\ r.op = "webhook" /\ r.sig = "good"
    /\ r.etype \in {"customer.subscription.deleted",
                    "customer.subscription.updated"}

(***************************************************************************)
(* C5.  A webhook delivery whose signature fails verification is answered  *)
(* 400 in the step that accepts it, whatever type and payload it carries;  *)
(* that step changes no row of users, and no handler is ever at work on    *)
(* such a delivery.                                                        *)
(***************************************************************************)
C5_BadSignatureRejected ==
    [][ Accepts =>
          /\ (Accepted.op = "webhook" /\ Accepted.sig = "bad") =>
                /\ AnsweredAtOnce
                /\ last'.status = 400
                /\ users' = users
          /\ \A p \in Workers :
                (loc'[p].op = "webhook") => loc'[p].sig = "good" ]_vars

\* A delivery with a bad signature that claims the checkout of a linked,
\* still free user completed has been answered 400.
C5_Witness ==
    /\ last.op = "webhook" /\ last.sig = "bad" /\ last.status = 400
    /\ last.etype = "checkout.session.completed"
    /\ last.subscription_id = "sub_1"
    /\ last.customer_id = "cus_1"
    /\ \E u \in DOMAIN users :
          /\ users[u].stripe_customer_id = last.customer_id
          /\ users[u].plan = "free"

(***************************************************************************)
(* C6.  The handler of a signed checkout-completed event leaves the user   *)
(* it found with plan pro, the event's customer reference and the event's  *)
(* subscription reference (the stored one when the event has none), and    *)
(* changes nothing else; when the same event was the last thing applied to *)
(* users (it is handled twice in a row), handling it again changes no row. *)
(***************************************************************************)
C6_ReplayedCheckoutIdempotent ==
    [][ \A p \in Workers :
          Moves(p, "wh_upgrade") =>
             LET l == loc[p]
                 id == l.uid
             IN /\ DOMAIN users' = DOMAIN users
                /\ users'[id].plan = "pro"
                /\ users'[id].stripe_customer_id = l.customer_id
                /\ users'[id].stripe_subscription_id =
                      IF l.subscription_id # None THEN l.subscription_id
                      ELSE users[id].stripe_subscription_id
                /\ users'[id].email = users[id].email
                /\ users'[id].name = users[id].name
                /\ \A v \in DOMAIN users \ {id} : users'[v] = users[v]
                /\ last'.status = 200
                /\ ( /\ l.replay
                     /\ lastDone = [customer |-> l.customer_id,
                                    subscription |-> l.subscription_id] )
                      => users' = users ]_vars

\* The same checkout-completed event has been handled a second time in a row.
C6_Witness ==
    /\ last.op = "webhook" /\ last.etype = "checkout.session.completed"
    /\ last.replay /\ last.status = 200
    /\ last.subscription_id = "sub_1"
    /\ lastDone = [customer |-> last.customer_id,
                   subscription |-> last.subscription_id]
    /\ users[last.uid].plan = "pro"
    /\ users[last.uid].stripe_customer_id = last.customer_id
    /\ users[last.uid].stripe_subscription_id = "sub_1"
    /\ \E v \in DOMAIN users : users[v].plan = "free"

(***************************************************************************)
(* C7.  For a user whose checkout calls ran one after the other: at most   *)
(* one Stripe customer is created for the user; once a call held a         *)
(* customer reference, every later call creates none and uses that         *)
(* reference, which is the one stored on the user, also when the earlier   *)
(* call's checkout session failed.                                         *)
(***************************************************************************)
CustomersOf(u) == {c \in DOMAIN customers : customers[c] = u}

C7_OneCustomerPerUser ==
    \A u \in UserIds :
        ~overlap[u] =>
            /\ Cardinality(CustomersOf(u)) <= 1
            /\ \A j \in 1..Len(calls[u]) :
                  calls[u][j].customer # None =>
                     /\ calls[u][j].customer \in CustomersOf(u)
                     /\ users[u].stripe_customer_id = calls[u][j].customer
                     /\ \A i \in 1..(j - 1) :
                           calls[u][i].customer # None =>
                              /\ ~calls[u][j].created
                              /\ calls[u][i].customer = calls[u][j].customer

\* The first call created the customer and its session failed; the second
\* call created none and got its session for the stored reference.
C7_Witness ==
    \E u \in UserIds :
        /\ ~overlap[u]
        /\ Len(calls[u]) = 2
        /\ calls[u][1].created /\ calls[u][1].status = 500
        /\ ~calls[u][2].created /\ calls[u][2].status = 200
        /\ calls[u][2].customer = calls[u][1].customer
        /\ users[u].stripe_customer_id = calls[u][1].customer
        /\ Cardinality(CustomersOf(u)) = 1

(***************************************************************************)
(* C9.  A signed subscription-updated or subscription-deleted event: the   *)
(* accepting step changes no row; when the status is canceled, unpaid or   *)
(* incomplete_expired and a user holds the event's customer reference, the *)
(* handler goes on to set that user's plan to free, changing nothing else, *)
(* and answers 200; in every other case it answers 200 at once.  No other  *)
(* step takes a plan to free.                                              *)
(***************************************************************************)
C9_DowngradeIffTerminalAndMatched ==
    [][ /\ (Accepts /\ SubscriptionEvent(Accepted)) =>
              LET r == Accepted
                  hit == /\ r.sub_status \in {"canceled", "unpaid",
                                              "incomplete_expired"}
                         /\ r.customer_id # None
                         /\ \E u \in DOMAIN users :
                               users[u].stripe_customer_id = r.customer_id
              IN /\ users' = users
                 /\ hit => /\ ~AnsweredAtOnce
                           /\ \E p \in Workers :
                                 /\ pc'[p] = "wh_downgrade"
                                 /\ loc'[p] = r
                                 /\ users[r.uid].stripe_customer_id = r.customer_id
                 /\ ~hit => (AnsweredAtOnce /\ last'.status = 200)
        /\ \A p \in Workers :
              Moves(p, "wh_downgrade") =>
                 /\ SubscriptionEvent(loc[p])
                 /\ users' = [users EXCEPT ![loc[p].uid].plan = "free"]
                 /\ last' = [loc[p] EXCEPT !.status = 200]
                 /\ pc'[p] = "idle"
        /\ \A u \in DOMAIN users :
              (users[u].plan # "free" /\ users'[u].plan = "free") =>
                 \E p \in Workers :
                    Moves(p, "wh_downgrade") /\ loc[p].uid = u ]_vars

\* A subscription-deleted event with status canceled took an upgraded user
\* back to the free plan.
C9_Witness ==
    /\ last.op = "webhook" /\ last.sig = "good" /\ last.status = 200
    /\ last.etype = "customer.subscription.deleted"
    /\ last.sub_status = "canceled"
    /\ last.uid # None
    /\ users[last.uid].plan = "free"
    /\ users[last.uid].stripe_customer_id = last.customer_id
    /\ users[last.uid].stripe_subscription_id = "sub_1"

MaxTokens == 2

MAX_AGE_SECONDS == 60 * 60 * 24 * 30

\* the moments the clock is looked at, around the edge of the window
TimePoints ==
    {0, 1, MAX_AGE_SECONDS - 1, MAX_AGE_SECONDS, MAX_AGE_SECONDS + 1,
     2 * MAX_AGE_SECONDS}

SignToken(user_id, at) == [uid |-> user_id, ts |-> at, sig |-> "good"]

ForgedToken(user_id, at) == [uid |-> user_id, ts |-> at, sig |-> "bad"]

ExpiredAtOnce(age, max_age) == age > 0

\* URLSafeTimedSerializer.loads: the token is too old
Expired(age, max_age) == age > max_age

\* serializer.loads(token, max_age): the exception it raises, or the payload
Loads(token, at, max_age) ==
    IF token.sig # "good"
    THEN [exc |-> "BadSignature", data |-> None]
    ELSE IF Expired(at - token.ts, max_age)
    THEN [exc |-> "SignatureExpired", data |-> None]
    ELSE [exc |-> "", data |-> token.uid]

\* except (BadSignature, SignatureExpired): return None
VerifyToken(token, at) ==
    LET r == Loads(token, at, MAX_AGE_SECONDS)
    IN IF r.exc = "" THEN [raised |-> FALSE, value |-> r.data]
       ELSE IF r.exc \in {"BadSignature", "SignatureExpired"}
       THEN [raised |-> FALSE, value |-> None]
       ELSE [raised |-> TRUE, value |-> None]

\* time passes
Tick ==
    /\ \E t \in TimePoints : t > now /\ now' = t
    /\ UNCHANGED <<tokens, verified>>

\* auth_google hands sign_token(user["id"]) to the client (line 679)
Sign ==
    /\ Cardinality(tokens) < MaxTokens
    /\ \E u \in UserIds : tokens' = tokens \cup {SignToken(u, now)}
    /\ UNCHANGED <<now, verified>>

\* a client makes up a token
Forge ==
    /\ Cardinality(tokens) < MaxTokens
    /\ \E u \in UserIds, t \in TimePoints :
          tokens' = tokens \cup {ForgedToken(u, t)}
    /\ UNCHANGED <<now, verified>>

\* get_user_from_bearer calls verify_token(token) (line 163)
Verify ==
    /\ \E tk \in tokens :
          LET r == VerifyToken(tk, now)
          IN verified' = [called |-> TRUE, token |-> tk, at |-> now,
                          raised |-> r.raised, value |-> r.value]
    /\ UNCHANGED <<now, tokens>>

InitTokens ==
    /\ users = ("usr_1" :> UserRow("a@x", "n", "free", None, None))
            @@ ("usr_2" :> UserRow("b@x", "n", "free", None, None))
    /\ usage = <<>>
    /\ customers = <<>>
    /\ pc = [p \in Workers |-> "idle"]
    /\ loc = [p \in Workers |-> Fresh]
    /\ attempts = [a \in ActorKeys |-> 0]
    /\ rets = [a \in ActorKeys |-> {}]
    /\ nreq = 0
    /\ InitHist

NextTokens ==
    \/ Tick /\ UNCHANGED <<users, usage, customers, pc, loc, attempts, rets, nreq, billingHist>>
    \/ Sign /\ UNCHANGED <<users, usage, customers, pc, loc, attempts, rets, nreq, billingHist>>
    \/ Forge /\ UNCHANGED <<users, usage, customers, pc, loc, attempts, rets, nreq, billingHist>>
    \/ Verify /\ UNCHANGED <<users, usage, customers, pc, loc, attempts, rets, nreq, billingHist>>

SpecTokens == InitTokens /\ [][NextTokens]_vars

(***************************************************************************)
(* C12.  verify_token never raises.  For a token sign_token made for user  *)
(* U it returns U when called less than 30 days after the signing and None *)
(* when called more than 30 days after it; for a token whose signature     *)
(* does not verify it returns None.                                        *)
(***************************************************************************)
C12_TokenRoundTrip ==
    verified.called =>
        LET tk == verified.token
            age == verified.at - tk.ts
        IN /\ ~verified.raised
           /\ (tk.sig = "good" /\ age < 2592000) => verified.value = tk.uid
           /\ (tk.sig = "good" /\ age > 2592000) => verified.value = None
           /\ tk.sig # "good" => verified.value = None

\* A token signed one second after start is verified one second before its
\* 30 days are over, while a forged token for the same user is about.
C12_Witness ==
    /\ verified.called
    /\ verified.token.sig = "good" /\ verified.token.ts = 1
    /\ verified.at = 2592000
    /\ verified.value = verified.token.uid
    /\ \E tk \in tokens : tk.sig = "bad" /\ tk.uid = verified.token.uid

(***************************************************************************)
(* C13 as stated.  A denied attempt reports as used the value usage_incr   *)
(* returned, which is above the limit.  Violated by every denial: the      *)
(* guest's 11th attempt reports used 10.                                   *)
(***************************************************************************)
C13_DeniedReportsPostIncrement ==
    \A p \in Workers :
        Denied(p) =>
            /\ loc[p].payload_used = loc[p].used_after
            /\ loc[p].payload_used > loc[p].limit

(***************************************************************************)
(* C13 amended.  A denied attempt is answered 402; the value usage_incr    *)
(* returned is above the limit and is the one the usage table holds, and   *)
(* the used reported to the caller is the smaller of that value and the    *)
(* limit, which is the limit.                                              *)
(***************************************************************************)
C13_DeniedReportsLimit ==
    \A p \in Workers :
        Denied(p) =>
            LET l == loc[p]
            IN /\ l.status = 402
               /\ l.used_after > l.limit
               /\ UsageGet(<<l.actor_type, l.actor_id>>) = l.used_after
               /\ l.payload_used = l.limit
               /\ l.payload_used < l.used_after

\* The guest's 11th attempt: the table holds 11, the answer says 10 of 10.
C13_Witness ==
    /\ Denied(1) /\ loc[1].actor_type = "guest" /\ loc[1].k = 11
    /\ loc[1].used_after = 11 /\ loc[1].limit = 10
    /\ loc[1].payload_used = 10

(***************************************************************************)
(* stripe_webhook as a function of the users table: the table after a      *)
(* signed delivery of event was handled with no other handler at work      *)
(* (lines 760-790).                                                        *)
(***************************************************************************)
HandledAlone(us, event) ==
    LET found == {u \in DOMAIN us : us[u].stripe_customer_id = event.customer}
    IN IF event.customer \in {None, ""} \/ found = {} THEN us
       ELSE LET id == CHOOSE u \in found : TRUE
            IN IF event.type = "checkout.session.completed"
               THEN [us EXCEPT ![id] =
                       [@ EXCEPT !.plan = "pro",
                                 !.stripe_customer_id =
                                     Coalesce(event.customer, @),
                                 !.stripe_subscription_id =
                                     Coalesce(event.subscription, @)]]
               ELSE IF /\ event.type \in {"customer.subscription.deleted",
                                          "customer.subscription.updated"}
                       /\ TerminalStatus(StatusLower(event.status))
               THEN [us EXCEPT ![id].plan = "free"]
               ELSE us

\* Each write of the webhook handler is the one HandledAlone computes.
HandledAloneIsTheHandler ==
    [][ \A p \in Workers :
          (Moves(p, "wh_upgrade") \/ Moves(p, "wh_downgrade")) =>
             (RowsByCustomer(loc[p].customer_id) = {loc[p].uid} =>
                users' = HandledAlone(users,
                            [type |-> loc[p].etype,
                             customer |-> loc[p].customer_id,
                             subscription |-> loc[p].subscription_id,
                             status |-> loc[p].sub_status])) ]_vars

(***************************************************************************)
(* C14.  For a user with a linked customer reference, handling a checkout  *)
(* completed event and a subscription event with status canceled, unpaid   *)
(* or incomplete_expired for that customer leaves the user with the same   *)
(* plan in either order.  Violated by every linked user: checkout first    *)
(* ends on the free plan, the subscription event first ends on pro.        *)
(***************************************************************************)
C14_WebhooksCommute ==
    \A u \in DOMAIN users :
        users[u].stripe_customer_id \notin {None, ""} =>
            \A s \in EventSubscriptions :
            \A t \in {"customer.subscription.deleted",
                      "customer.subscription.updated"} :
            \A st \in {"canceled", "unpaid", "incomplete_expired"} :
                LET a == [type |-> "checkout.session.completed",
                          customer |-> users[u].stripe_customer_id,
                          subscription |-> s, status |-> None]
                    b == [type |-> t,
                          customer |-> users[u].stripe_customer_id,
                          subscription |-> None, status |-> st]
                IN HandledAlone(HandledAlone(users, a), b)[u].plan
                     = HandledAlone(HandledAlone(users, b), a)[u].plan

(***************************************************************************)
(* api_me (lines 631-644): three reads, each a SELECT of its own.          *)
(*                                                                         *)
(* get_authed_user: the caller's row, for logged_in, email and plan.       *)
(***************************************************************************)
MeStart(p, bearer, session, cookie) ==
    /\ Dispatch(p)
    /\ nreq' = nreq + 1
    /\ LET u == GetAuthedUser(bearer, session)
           al == ActorAndLimit(u, cookie)
       IN loc' = [loc EXCEPT ![p] =
                    [Fresh EXCEPT !.op = "me", !.uid = u,
                                  !.logged_in = (u # None),
                                  !.email = IF u # None THEN users[u].email ELSE "",
                                  !.plan = IF u # None THEN users[u].plan ELSE "guest",
                                  !.actor_type = al.actor_type,
                                  !.actor_id = al.actor_id]]
    /\ pc' = [pc EXCEPT ![p] = "me_limit"]
    /\ UNCHANGED <<users, usage, customers, attempts, rets, billingHist>>
    /\ UNCHANGED tokenVars

\* actor_and_limit: the row is read again, for the limit (line 634)
MeLimit(p) ==
    /\ pc[p] = "me_limit"
    /\ loc' = [loc EXCEPT ![p].limit =
                  ActorAndLimit(loc[p].uid, loc[p].actor_id).limit]
    /\ pc' = [pc EXCEPT ![p] = "me_usage"]
    /\ UNCHANGED <<users, usage, customers, attempts, rets, nreq, billingHist>>
    /\ UNCHANGED tokenVars

Max(a, b) == IF a > b THEN a ELSE b

\* usage_get and the answer (lines 635-644)
MeUsage(p) ==
    /\ pc[p] = "me_usage"
    /\ LET l == loc[p]
           used == UsageGet(<<l.actor_type, l.actor_id>>)
       IN Answer(p, [l EXCEPT !.payload_used = used,
                              !.remaining = Max(0, l.limit - used)], 200)
    /\ UNCHANGED <<users, usage, customers, attempts, rets, nreq,
                   issued, calls, overlap, lastDone>>
    /\ UNCHANGED tokenVars

(***************************************************************************)
(* Quota attempts and status queries of a user while the webhook changes   *)
(* the user's plan.  The user has signed in, made 11 attempts on the free  *)
(* plan and called checkout once.                                          *)
(***************************************************************************)
MaxPlanRequests == 4

UsedBefore == FREE_LIMIT

PlanEvents ==
    {e \in Events :
        /\ e.customer = "cus_1"
        /\ \/ e.type = "checkout.session.completed" /\ e.subscription = "sub_1"
           \/ e.type = "customer.subscription.deleted"
                 /\ e.status = "canceled"}

InitPlan ==
    /\ users = ("usr_1" :> UserRow("a@x", "n1", "free", "cus_1", None))
    /\ customers = ("cus_1" :> "usr_1")
    /\ usage = (<<"user", "usr_1">> :> UsedBefore)
    /\ attempts = [a \in ActorKeys |->
                      IF a = <<"user", "usr_1">> THEN UsedBefore ELSE 0]
    /\ rets = [a \in ActorKeys |->
                  IF a = <<"user", "usr_1">> THEN 1..UsedBefore ELSE {}]
    /\ pc = [p \in Workers |-> "idle"]
    /\ loc = [p \in Workers |-> Fresh]
    /\ nreq = 0
    /\ InitHist

PlanStep(p) ==
    \/ /\ nreq < MaxPlanRequests
       /\ \E s \in {"usr_1"} : EnforceStart(p, None, s, "g1")
    \/ UsageIncrSelect(p)
    \/ UsageIncrWrite(p)
    \/ CallDeepseek(p)
    \/ Finish(p)
    \/ /\ nreq < MaxPlanRequests
       /\ \E b \in {"usr_1"} : MeStart(p, b, None, "g1")
    \/ MeLimit(p)
    \/ MeUsage(p)
    \/ /\ nreq < MaxPlanRequests
       /\ \E event \in PlanEvents : WebhookStart(p, "good", event)
    \/ WebhookUpgrade(p)
    \/ WebhookDowngrade(p)

NextPlan == \E p \in Workers : PlanStep(p)

SpecPlan == InitPlan /\ [][NextPlan]_vars

(***************************************************************************)
(* C15.  Whatever quota attempts and status queries run at once, the       *)
(* stored used of an actor is a non-negative integer, its row stays, and   *)
(* no step takes it to a smaller value.  Violated by an attempt that       *)
(* writes the value it computed from a row two other attempts have         *)
(* incremented since.                                                      *)
(***************************************************************************)
C15_UsedNeverDecreases ==
    [][ \A a \in DOMAIN usage :
          /\ usage[a] \in Nat
          /\ a \in DOMAIN usage'
          /\ usage'[a] \in Nat
          /\ usage'[a] >= usage[a] ]_vars

(***************************************************************************)
(* C17.  An attempt of a user is judged against the limit of the plan the  *)
(* users table holds when the attempt starts: 1,000,000 once an upgrade    *)
(* has committed, 11 once a downgrade has; and a step that changes a plan  *)
(* leaves every used count as it is.                                       *)
(***************************************************************************)
C17_PlanChangeSeenByNextAttempt ==
    [][ /\ \A p \in Workers :
              (pc[p] = "idle" /\ pc'[p] = "incr_select"
                 /\ loc'[p].actor_type = "user") =>
                 /\ loc'[p].actor_id \in DOMAIN users
                 /\ loc'[p].limit =
                       IF users[loc'[p].actor_id].plan = "pro"
                       THEN 1000000 ELSE 11
        /\ (\E u \in DOMAIN users : users'[u].plan # users[u].plan) =>
              usage' = usage
        /\ \A p \in Workers :
              (Moves(p, "wh_upgrade") \/ Moves(p, "wh_downgrade")) =>
                 usage' = usage ]_vars

\* The user's 12th attempt started after the upgrade and passed against
\* 1,000,000; the 13th started after the downgrade and is denied against 11.
C17_Witness ==
    \E p \in Workers, q \in Workers :
        /\ Allowed(p) /\ loc[p].actor_type = "user"
        /\ loc[p].limit = 1000000 /\ loc[p].used_after = 12
        /\ Denied(q) /\ loc[q].actor_type = "user"
        /\ loc[q].limit = 11 /\ loc[q].used_after = 13
        /\ users["usr_1"].plan = "free"
        /\ users["usr_1"].stripe_subscription_id = "sub_1"
        /\ usage[<<"user", "usr_1">>] = 13

(***************************************************************************)
(* C16.  Once a user's stripe_customer_id holds a value no step replaces   *)
(* it with another, and no customer is created for a user who holds one.   *)
(* Violated by two checkout calls of one user that both read the empty     *)
(* reference: each creates a customer and stores it, and the second store  *)
(* replaces the first.                                                     *)
(***************************************************************************)
C16_CustomerRefSetOnce ==
    [][ \A u \in DOMAIN users :
          users[u].stripe_customer_id \notin {None, ""} =>
             /\ u \in DOMAIN users'
             /\ users'[u].stripe_customer_id = users[u].stripe_customer_id
             /\ \A c \in DOMAIN customers' \ DOMAIN customers :
                   customers'[c] # u ]_vars

====
